---- MODULE Spec2Model ----
(***************************************************************************)
(* A model of static/js/custom.js, the client-side script of the College   *)
(* Attendance Management System: the attendance calculator (in IEEE-754    *)
(* double arithmetic, as JavaScript computes it), the notification and     *)
(* loading-overlay presenters, the row filters and table search, the DOM   *)
(* wiring of the sidebar, and the fetch wrapper ajaxRequest.               *)
(***************************************************************************)
EXTENDS Integers, Sequences, FiniteSets, TLC

VARIABLES
    \* calculateRequiredClasses: its arguments, its locals, its position
    pc, currentTotal, currentAttended, targetPercentage,
    futureTotal, futureAttended, required, returned,
    \* calculateAttendance: its arguments and its return value
    totalClasses, attendedClasses, percentage,
    \* document.body's appended children, the pending setTimeout callbacks
    \* (in the order they were scheduled), the number of nodes created,
    \* and whether the page-load timer that closes alerts is still pending
    body, timers, created, autoHide,
    \* the calls made to showLoading and hideLoading, in order
    calls,
    \* ajaxRequest: each request's promise chain
    requests,
    \* the rendered rows (data attributes, cell text, style.display) and
    \* the last filter or search handler that ran
    rows, lastCall,
    \* which elements the page holds, whether DOMContentLoaded has fired,
    \* the listeners attached, the sidebar's state, the status radio
    \* checked, whether the submit button was clicked, the uncaught error
    page, loaded, listeners, sidebarOpen, transform, marginLeft, active,
    checked, submitted, error

mathVars == <<pc, currentTotal, currentAttended, targetPercentage,
              futureTotal, futureAttended, required, returned>>
attVars == <<totalClasses, attendedClasses, percentage>>
docVars == <<body, timers, created, autoHide>>
rowVars == <<rows, lastCall>>
domVars == <<page, loaded, listeners, sidebarOpen, transform, marginLeft,
             active, checked, submitted, error>>
vars == <<mathVars, attVars, docVars, calls, requests, rowVars, domVars>>

\* what each part of the script leaves alone
exceptMath == <<attVars, docVars, calls, requests, rowVars, domVars>>
exceptAttendance == <<mathVars, docVars, calls, requests, rowVars, domVars>>
exceptDocument == <<mathVars, attVars, calls, requests, rowVars, domVars>>
exceptLoading == <<mathVars, attVars, requests, rowVars, domVars>>
exceptAjax == <<mathVars, attVars, calls, rowVars, domVars>>
exceptRows == <<mathVars, attVars, docVars, calls, requests, domVars>>
exceptDom == <<mathVars, attVars, calls, requests>>

None == "none"

(***************************************************************************)
(* JavaScript Number arithmetic.  A non-negative double is NaN, Infinity,  *)
(* zero, or m * 2^e with a 53-bit significand m held in three limbs of 18  *)
(* bits, m = m2 * 2^36 + m1 * 2^18 + m0 and 2^52 <= m < 2^53.  Every       *)
(* operation rounds to nearest, ties to even, as IEEE-754 does.            *)
(***************************************************************************)
RECURSIVE Pow2(_)
Pow2(n) == IF n <= 0 THEN 1 ELSE 2 * Pow2(n - 1)

Limb == Pow2(18)
TopMin == Pow2(16)

\* the element of a one-element set: { e(v) : v \in {d} } names d once
The(S) == CHOOSE r \in S : TRUE

NaN == [k |-> "nan"]
Infinity == [k |-> "inf"]
Zero == [k |-> "zero"]
Fin(m2, m1, m0, e) == [k |-> "fin", m2 |-> m2, m1 |-> m1, m0 |-> m0, e |-> e]

\* m + 1, renormalised when the significand reaches 2^53
IncSig(m2, m1, m0, e) ==
    IF m0 + 1 < Limb THEN Fin(m2, m1, m0 + 1, e)
    ELSE IF m1 + 1 < Limb THEN Fin(m2, m1 + 1, 0, e)
    ELSE IF m2 + 1 < 2 * TopMin THEN Fin(m2 + 1, 0, 0, e)
    ELSE Fin(TopMin, 0, 0, e + 1)

\* round to nearest, ties to even: rem is what was cut off, half is half a unit
RoundSig(m2, m1, m0, e, rem, half) ==
    IF rem > half \/ (rem = half /\ m0 % 2 = 1)
    THEN IncSig(m2, m1, m0, e)
    ELSE Fin(m2, m1, m0, e)

RECURSIVE ScaleUp(_, _, _)
\* the least i with a * 2^i >= t, as <<a * 2^i, i>>
ScaleUp(a, t, i) == IF a >= t THEN <<a, i>> ELSE ScaleUp(2 * a, t, i + 1)

RECURSIVE ScaleDown(_, _, _)
\* the least j with a < 2 * t * 2^j, as <<t * 2^j, j>>
ScaleDown(a, t, j) == IF a < 2 * t THEN <<t, j>> ELSE ScaleDown(a, 2 * t, j + 1)

\* aa / tt * 2^52 * 2^e for tt <= aa < 2 * tt, by long division, rounded
Quotient(aa, tt, e) ==
    LET n2 == aa * TopMin
        q2 == n2 \div tt
        r2 == n2 % tt
        q1 == (r2 * Limb) \div tt
        r1 == (r2 * Limb) % tt
        q0 == (r1 * Limb) \div tt
        r0 == (r1 * Limb) % tt
    IN  RoundSig(q2, q1, q0, e, 2 * r0, tt)

\* a / t for integers a, t >= 0: the quotient rounded to a double
FDiv(a, t) ==
    IF t = 0 THEN (IF a = 0 THEN NaN ELSE Infinity)
    ELSE IF a = 0 THEN Zero
    ELSE The({ The({ Quotient(up[1], dn[1], dn[2] - up[2] - 52) :
                        dn \in {ScaleDown(up[1], t, 0)} }) :
                   up \in {ScaleUp(a, t, 0)} })

\* the exact product m * 100 of a significand, as limbs <<top, mid, low>>,
\* the top limb unreduced
Times100(x) ==
    LET p0 == x.m0 * 100
        p1 == x.m1 * 100 + (p0 \div Limb)
        p2 == x.m2 * 100 + (p1 \div Limb)
    IN  <<p2, p1 % Limb, p0 % Limb>>

\* x * 100 rounded to a double
FMul100(x) ==
    IF x.k # "fin" THEN x
    ELSE The({ LET sh == IF y[1] >= Pow2(23) THEN 7 ELSE 6
                   d == Pow2(sh)
                   up == Pow2(18 - sh)
               IN  RoundSig(y[1] \div d,
                            (y[2] \div d) + (y[1] % d) * up,
                            (y[3] \div d) + (y[2] % d) * up,
                            x.e + sh, y[3] % d, d \div 2) :
               y \in {Times100(x)} })

\* the integer part of a finite double below 2^31
Floor(x) ==
    LET f == 0 - x.e
    IN  IF f >= 53 THEN 0
        ELSE IF f >= 36 THEN x.m2 \div Pow2(f - 36)
        ELSE x.m2 * Pow2(36 - f) + (x.m1 \div Pow2(f - 18))

\* x < p for a double x >= 0 and an integer p
FLess(x, p) ==
    CASE x.k = "nan" -> FALSE
      [] x.k = "inf" -> FALSE
      [] x.k = "zero" -> 0 < p
      [] OTHER -> Floor(x) < p

(***************************************************************************)
(* calculateRequiredClasses                                                *)
(***************************************************************************)
MaxTotal == 3
MaxAttended == 4
Cap == 100

Targets == {0, 1, 50, 58, 75, 99, 100, 101, 150}
\* the spec's worked example, and inputs at which a quotient is inexact
Vectors == {<<20, 14, 75>>, <<50, 29, 58>>, <<100, 57, 57>>}
RequiredInputs ==
    ((0..MaxTotal) \X (0..MaxAttended) \X Targets) \cup Vectors

\* the loop condition with the quotient's operands exchanged
LoopCondSwapped(ft, fa, tp, req) ==
    /\ \E q \in {FDiv(ft, fa)} : \E x \in {FMul100(q)} : FLess(x, tp)
    /\ req < Cap

\* the loop condition without its cap
LoopCondNoCap(ft, fa, tp, req) ==
    \E q \in {FDiv(fa, ft)} : \E x \in {FMul100(q)} : FLess(x, tp)

\* (futureAttended / futureTotal * 100) < targetPercentage && required < 100
LoopCond(ft, fa, tp, req) ==
    /\ \E q \in {FDiv(fa, ft)} : \E x \in {FMul100(q)} : FLess(x, tp)
    /\ req < Cap

InitRequired ==
    /\ \E in \in RequiredInputs :
          /\ currentTotal = in[1]
          /\ currentAttended = in[2]
          /\ targetPercentage = in[3]
    /\ pc = "entry"
    /\ required = 0 /\ futureTotal = 0 /\ futureAttended = 0
    /\ returned = 0 - 1

IdleRequired ==
    /\ pc = "idle" /\ currentTotal = 0 /\ currentAttended = 0
    /\ targetPercentage = 0 /\ required = 0 /\ futureTotal = 0
    /\ futureAttended = 0 /\ returned = 0 - 1

\* let required = 0; let futureTotal = ...; let futureAttended = ...
Enter ==
    /\ pc = "entry"
    /\ required' = 0
    /\ futureTotal' = currentTotal
    /\ futureAttended' = currentAttended
    /\ pc' = "loop"
    /\ UNCHANGED <<currentTotal, currentAttended, targetPercentage, returned>>
    /\ UNCHANGED exceptMath

\* one iteration of the while loop
LoopStep ==
    /\ pc = "loop"
    /\ LoopCond(futureTotal, futureAttended, targetPercentage, required)
    /\ futureTotal' = futureTotal + 1
    /\ futureAttended' = futureAttended + 1
    /\ required' = required + 1
    /\ UNCHANGED <<pc, currentTotal, currentAttended, targetPercentage, returned>>
    /\ UNCHANGED exceptMath

\* the loop condition fails: return required
Return ==
    /\ pc = "loop"
    /\ ~LoopCond(futureTotal, futureAttended, targetPercentage, required)
    /\ returned' = required
    /\ pc' = "done"
    /\ UNCHANGED <<currentTotal, currentAttended, targetPercentage,
                   futureTotal, futureAttended, required>>
    /\ UNCHANGED exceptMath

(***************************************************************************)
(* calculateAttendance                                                     *)
(***************************************************************************)
MaxClasses == 33

\* toFixed cutting the digits off instead of rounding
ToFixed2Truncating(x) ==
    CASE x.k = "zero" -> 0
      [] x.k = "fin" -> The({ Floor(y) : y \in {FMul100(x)} })

\* Number.prototype.toFixed(2) of a double x >= 0, as the count n of
\* hundredths its digits denote: the n with n / 100 - x closest to zero,
\* the larger n on a tie
ToFixed2(x) ==
    CASE x.k = "zero" -> 0
      [] x.k = "fin" ->
           The({ LET f == 0 - x.e
                 IN  IF f >= 62 THEN 0
                     ELSE IF f >= 37
                          THEN (y[1] \div Pow2(f - 36))
                               + ((y[1] \div Pow2(f - 37)) % 2)
                     ELSE IF f = 36 THEN y[1] + (y[2] \div Pow2(17))
                     ELSE y[1] * Pow2(36 - f) + (y[2] \div Pow2(f - 18))
                          + ((y[2] \div Pow2(f - 19)) % 2) :
                 y \in {Times100(x)} })

\* the value calculateAttendance returns: the number 0, or toFixed's string
calculateAttendance(total, attended) ==
    IF total = 0 THEN [type |-> "number", hundredths |-> 0]
    ELSE [type |-> "string",
          hundredths |->
              The({ The({ ToFixed2(x) : x \in {FMul100(q)} }) :
                    q \in {FDiv(attended, total)} })]

\* before the call there is no return value
NotCalled == [type |-> "undefined", hundredths |-> 0]

InitAttendance ==
    /\ totalClasses \in 0..MaxClasses
    /\ attendedClasses \in 0..MaxClasses
    /\ percentage = NotCalled

IdleAttendance ==
    /\ totalClasses = 0 /\ attendedClasses = 0 /\ percentage = NotCalled

CalculateAttendance ==
    /\ percentage = NotCalled
    /\ percentage' = calculateAttendance(totalClasses, attendedClasses)
    /\ UNCHANGED <<totalClasses, attendedClasses>>
    /\ UNCHANGED exceptAttendance

(***************************************************************************)
(* The document body: notification toasts and the loading overlay          *)
(***************************************************************************)
MaxNodes == 3
Delay == 3000

Severity == {"info", "warning", "danger", "success"}

\* the div showNotification creates: class "alert alert-<type> ..."
Alert(id, type) == [id |-> id, kind |-> "alert", type |-> type]
\* the div showLoading creates: id "loadingOverlay"
Overlay(id) == [id |-> id, kind |-> "overlay", type |-> "spinner"]

InBody(id) == \E i \in 1..Len(body) : body[i].id = id

\* node.remove() of the youngest child instead of the node itself
RemoveYoungest(b, id) ==
    IF b = <<>> THEN b ELSE SubSeq(b, 1, Len(b) - 1)

\* node.remove(): the node leaves its parent; nothing happens without one
Remove(b, id) == SelectSeq(b, LAMBDA n : n.id # id)

InitDocument ==
    /\ body = <<>> /\ timers = <<>> /\ created = 0 /\ autoHide = TRUE

IdleDocument ==
    /\ body = <<>> /\ timers = <<>> /\ created = 0 /\ autoHide = FALSE

\* showNotification(message, type): append the alert, schedule its removal
ShowNotification(type) ==
    /\ created < MaxNodes
    /\ created' = created + 1
    /\ body' = Append(body, Alert(created', type))
    /\ timers' = Append(timers, [node |-> created', ms |-> Delay])
    /\ UNCHANGED autoHide
    /\ UNCHANGED exceptDocument

\* the timeout callback of the oldest pending timer: alertDiv.remove()
TimerFire ==
    /\ timers # <<>>
    /\ body' = Remove(body, Head(timers).node)
    /\ timers' = Tail(timers)
    /\ UNCHANGED <<created, autoHide>>
    /\ UNCHANGED exceptDocument

\* the user clicks an alert's .btn-close (data-bs-dismiss="alert")
Dismiss(id) ==
    /\ \E i \in 1..Len(body) : body[i].id = id /\ body[i].kind = "alert"
    /\ body' = Remove(body, id)
    /\ UNCHANGED <<timers, created, autoHide>>
    /\ UNCHANGED exceptDocument

\* the page-load timer: click the .btn-close of every dismissible alert
AutoHideAlerts ==
    /\ autoHide
    /\ autoHide' = FALSE
    /\ body' = SelectSeq(body, LAMBDA n : n.kind # "alert")
    /\ UNCHANGED <<timers, created>>
    /\ UNCHANGED exceptDocument

(***************************************************************************)
(* showLoading / hideLoading                                               *)
(***************************************************************************)
MaxCalls == 6

InitLoading == calls = <<>>

\* showLoading that leaves an overlay already there alone
ShowLoadingOnce ==
    /\ Len(calls) < MaxCalls
    /\ calls' = Append(calls, "showLoading")
    /\ IF \E i \in 1..Len(body) : body[i].kind = "overlay"
       THEN UNCHANGED <<body, created>>
       ELSE /\ created' = created + 1
            /\ body' = Append(body, Overlay(created'))
    /\ UNCHANGED <<timers, autoHide>>
    /\ UNCHANGED exceptLoading

\* showLoading(): create the overlay and append it
ShowLoading ==
    /\ Len(calls) < MaxCalls
    /\ calls' = Append(calls, "showLoading")
    /\ created' = created + 1
    /\ body' = Append(body, Overlay(created'))
    /\ UNCHANGED <<timers, autoHide>>
    /\ UNCHANGED exceptLoading

\* document.getElementById('loadingOverlay'): the first such node, if any
FirstOverlay(b) ==
    IF \E i \in 1..Len(b) : b[i].kind = "overlay"
    THEN b[CHOOSE i \in 1..Len(b) :
              /\ b[i].kind = "overlay"
              /\ \A j \in 1..(i - 1) : b[j].kind # "overlay"].id
    ELSE 0

\* hideLoading(): remove the overlay found, if one was found
HideLoading ==
    /\ Len(calls) < MaxCalls
    /\ calls' = Append(calls, "hideLoading")
    /\ body' = IF FirstOverlay(body) # 0
               THEN Remove(body, FirstOverlay(body))
               ELSE body
    /\ UNCHANGED <<timers, created, autoHide>>
    /\ UNCHANGED exceptLoading

(***************************************************************************)
(* ajaxRequest                                                             *)
(***************************************************************************)
MaxRequests == 2

\* what the caller passed as callback: nothing, a function that returns,
\* or a function that throws
Callbacks == {"absent", "returns", "throws"}
\* what response.json() can decode
Decoded == {"ok", "denied"}

NotSent ==
    [st |-> "unsent", callback |-> "absent", data |-> "", passed |-> "",
     invoked |-> 0, notified |-> 0, logged |-> 0, fetched |-> "pending"]

InitAjax == requests = [r \in 1..MaxRequests |-> NotSent]

\* ajaxRequest(url, method, data, callback): fetch is called, the chain is built
AjaxRequest(r, cb) ==
    /\ requests[r].st = "unsent"
    /\ requests' = [requests EXCEPT ![r].st = "fetching", ![r].callback = cb]
    /\ UNCHANGED docVars
    /\ UNCHANGED exceptAjax

\* the fetch promise fulfils with a response, whatever its status:
\* response => response.json() starts reading the body
FetchResolve(r) ==
    /\ requests[r].st = "fetching"
    /\ requests' = [requests EXCEPT ![r].st = "decoding"]
    /\ UNCHANGED docVars
    /\ UNCHANGED exceptAjax

\* the fetch promise rejects (a transport failure)
FetchReject(r) ==
    /\ requests[r].st = "fetching"
    /\ requests' = [requests EXCEPT ![r].st = "rejected",
                                    ![r].fetched = "transport failure"]
    /\ UNCHANGED docVars
    /\ UNCHANGED exceptAjax

\* response.json() rejects: the body is not JSON
DecodeFail(r) ==
    /\ requests[r].st = "decoding"
    /\ requests' = [requests EXCEPT ![r].st = "rejected",
                                    ![r].fetched = "decode failure"]
    /\ UNCHANGED docVars
    /\ UNCHANGED exceptAjax

\* response.json() fulfils with the decoded value
DecodeOk(r, d) ==
    /\ requests[r].st = "decoding"
    /\ requests' = [requests EXCEPT ![r].st = "decoded", ![r].data = d,
                                    ![r].fetched = "decoded"]
    /\ UNCHANGED docVars
    /\ UNCHANGED exceptAjax

\* data => { if (callback) callback(data); }: a callback that throws
\* rejects the promise .catch is attached to
ThenCallback(r) ==
    /\ requests[r].st = "decoded"
    /\ requests' =
          [requests EXCEPT ![r] =
              IF @.callback = "absent" THEN [@ EXCEPT !.st = "settled"]
              ELSE [@ EXCEPT !.invoked = @ + 1, !.passed = requests[r].data,
                             !.st = IF requests[r].callback = "throws"
                                    THEN "rejected" ELSE "settled"]]
    /\ UNCHANGED docVars
    /\ UNCHANGED exceptAjax

\* error => { console.error(...); showNotification(..., 'danger'); }
CatchError(r) ==
    /\ requests[r].st = "rejected"
    /\ requests' = [requests EXCEPT ![r].st = "settled",
                                    ![r].logged = @ + 1,
                                    ![r].notified = @ + 1]
    /\ created' = created + 1
    /\ body' = Append(body, Alert(created', "danger"))
    /\ timers' = Append(timers, [node |-> created', ms |-> Delay])
    /\ UNCHANGED autoHide
    /\ UNCHANGED exceptAjax

(***************************************************************************)
(* Row filters and table search                                            *)
(***************************************************************************)
MaxRows == 2

\* an element without the data attribute
NoAttr == "(no attribute)"

Days == {"Mon"}
Statuses == {"present", "absent"}
Semesters == {"1"}
\* a row's cells, each cell's textContent a sequence of characters
CellTexts == { << <<"a", "b">> >>, << <<"B">>, <<"a">> >> }
\* what the filter functions are called with, and what is typed to search
DayArgs == {"all", "Mon", "Tue"}
StatusArgs == {"all", "present", "absent"}
SemesterArgs == {"all", "1", "2"}
SearchArgs == { <<>>, <<"b">>, <<"a", "B">>, <<"b", "a">> }

\* the rows as rendered, all shown: a row of an attendance record carries
\* data-status and data-semester, any row may carry data-day
Rendered ==
    {r \in [day : Days \cup {NoAttr}, status : Statuses \cup {NoAttr},
            semester : Semesters \cup {NoAttr}, cells : CellTexts,
            display : {""}] :
        (r.semester = NoAttr) <=> (r.status = NoAttr)}

\* String.prototype.toUpperCase, a character at a time
Upper(c) == CASE c = "a" -> "A" [] c = "b" -> "B" [] OTHER -> c
toUpperCase(t) == [i \in DOMAIN t |-> Upper(t[i])]

\* String.prototype.indexOf: the first place f occurs in t, from 0, or -1
indexOf(t, f) ==
    LET at == {i \in 0..(Len(t) - Len(f)) : SubSeq(t, i + 1, i + Len(f)) = f}
    IN  IF at = {} THEN 0 - 1
        ELSE CHOOSE i \in at : \A j \in at : i <= j

\* row.style.display = shown ? '' : 'none'
Display(shown) == IF shown THEN "" ELSE "none"

\* a filter that takes the rows it hides out of the table
filterByDayRemoving(rs, day) ==
    SelectSeq(rs, LAMBDA r : r.day = NoAttr \/ day = "all" \/ r.day = day)

\* filterByDay(day) on the elements matching [data-day]
filterByDay(rs, day) ==
    [i \in DOMAIN rs |->
        IF rs[i].day = NoAttr THEN rs[i]
        ELSE [rs[i] EXCEPT !.display = Display(day = "all" \/ rs[i].day = day)]]

\* a status filter that only hides, and never shows a row again
filterByStatusHiding(rs, status) ==
    [i \in DOMAIN rs |->
        IF rs[i].status = NoAttr \/ status = "all" \/ rs[i].status = status
        THEN rs[i]
        ELSE [rs[i] EXCEPT !.display = "none"]]

\* filterByStatus(status) on the elements matching [data-status]
filterByStatus(rs, status) ==
    [i \in DOMAIN rs |->
        IF rs[i].status = NoAttr THEN rs[i]
        ELSE [rs[i] EXCEPT
                 !.display = Display(status = "all" \/ rs[i].status = status)]]

\* filterBySemester(semester) on the elements matching [data-semester]
filterBySemester(rs, semester) ==
    [i \in DOMAIN rs |->
        IF rs[i].semester = NoAttr THEN rs[i]
        ELSE [rs[i] EXCEPT
                 !.display = Display(semester = "all"
                                     \/ rs[i].semester = semester)]]

\* the keyup handler's loop over the table's tbody rows
searchRows(rs, value) ==
    LET filter == toUpperCase(value)
    IN  [i \in DOMAIN rs |->
            [rs[i] EXCEPT
                !.display =
                    Display(\E c \in DOMAIN rs[i].cells :
                               indexOf(toUpperCase(rs[i].cells[c]), filter)
                                   > 0 - 1)]]

RECURSIVE SeqsUpTo(_, _)
\* the sequences over S of length at most n
SeqsUpTo(S, n) ==
    IF n = 0 THEN {<<>>}
    ELSE SeqsUpTo(S, n - 1) \cup
         {Append(q, x) : q \in {q \in SeqsUpTo(S, n - 1) : Len(q) = n - 1},
                         x \in S}

NoCall == <<"none", "">>

InitRows == rows \in SeqsUpTo(Rendered, MaxRows) /\ lastCall = NoCall

IdleRows == rows = <<>> /\ lastCall = NoCall

CallFilterByDay(day) ==
    /\ rows' = filterByDay(rows, day)
    /\ lastCall' = <<"filterByDay", day>>
    /\ UNCHANGED exceptRows

CallFilterByStatus(status) ==
    /\ rows' = filterByStatus(rows, status)
    /\ lastCall' = <<"filterByStatus", status>>
    /\ UNCHANGED exceptRows

CallFilterBySemester(semester) ==
    /\ rows' = filterBySemester(rows, semester)
    /\ lastCall' = <<"filterBySemester", semester>>
    /\ UNCHANGED exceptRows

(***************************************************************************)
(* The page's elements and the handlers that query them                    *)
(***************************************************************************)
Elements ==
    {"sidebarToggle", "sidebar", "mainContent", "searchInput", "cardBody",
     "table", "radio", "submit"}

\* a page, as the set of the elements it holds; a table to search is one
\* inside the search input's .card-body
Pages == {P \in SUBSET Elements : "table" \in P => "cardBody" \in P}

InitDom ==
    /\ page \in Pages
    /\ loaded = FALSE /\ listeners = {} /\ sidebarOpen = TRUE
    /\ transform = "" /\ marginLeft = "" /\ active = FALSE
    /\ checked = "" /\ submitted = FALSE /\ error = None

\* a loaded page that holds all of them, the listeners attached
IdleDom ==
    /\ page = Elements
    /\ loaded = TRUE /\ listeners = {"click", "keyup"} /\ sidebarOpen = TRUE
    /\ transform = "" /\ marginLeft = "" /\ active = FALSE
    /\ checked = "" /\ submitted = FALSE /\ error = None

\* DOMContentLoaded: initSidebar attaches toggleSidebar to #sidebarToggle
\* when it and .sidebar exist, initTableSearch attaches the keyup handler
\* to every search input; the other initializers loop over what they
\* find; the timer that closes the alerts is scheduled
DOMContentLoaded ==
    /\ ~loaded
    /\ loaded' = TRUE
    /\ autoHide' = TRUE
    /\ listeners' =
          (IF {"sidebarToggle", "sidebar"} \subseteq page THEN {"click"} ELSE {})
          \cup (IF "searchInput" \in page THEN {"keyup"} ELSE {})
    /\ UNCHANGED <<page, sidebarOpen, transform, marginLeft, active, checked,
                   submitted, error, rows, lastCall>>
    /\ UNCHANGED <<body, timers, created, exceptDom>>

\* a click on #sidebarToggle runs toggleSidebar: the flag is flipped first,
\* then sidebar.style and mainContent.style are written, each a TypeError
\* on null
toggleSidebar ==
    /\ "click" \in listeners
    /\ sidebarOpen' = ~sidebarOpen
    /\ transform' = IF "sidebar" \in page
                    THEN (IF sidebarOpen' THEN "translateX(0)"
                                          ELSE "translateX(-250px)")
                    ELSE transform
    /\ marginLeft' = IF {"sidebar", "mainContent"} \subseteq page
                     THEN (IF sidebarOpen' THEN "250px" ELSE "0")
                     ELSE marginLeft
    /\ error' = IF {"sidebar", "mainContent"} \subseteq page
                THEN error ELSE "TypeError"
    /\ UNCHANGED <<page, loaded, listeners, active, checked, submitted,
                   rows, lastCall>>
    /\ UNCHANGED <<docVars, exceptDom>>

\* toggleMobileMenu(): sidebar.classList.toggle('active')
toggleMobileMenu ==
    /\ active' = IF "sidebar" \in page THEN ~active ELSE active
    /\ error' = IF "sidebar" \in page THEN error ELSE "TypeError"
    /\ UNCHANGED <<page, loaded, listeners, sidebarOpen, transform,
                   marginLeft, checked, submitted, rows, lastCall>>
    /\ UNCHANGED <<docVars, exceptDom>>

\* keyup in a search input: this.closest('.card-body').querySelector('table')
\* is a TypeError when there is no .card-body; without a table nothing runs
SearchKeyup(value) ==
    /\ "keyup" \in listeners
    /\ rows' = IF "table" \in page THEN searchRows(rows, value) ELSE rows
    /\ lastCall' = <<"keyup", value>>
    /\ error' = IF "cardBody" \in page THEN error ELSE "TypeError"
    /\ UNCHANGED <<page, loaded, listeners, sidebarOpen, transform,
                   marginLeft, active, checked, submitted>>
    /\ UNCHANGED <<docVars, exceptDom>>

\* markPresent(studentId) / markAbsent(studentId): if (radio) radio.checked = true
Mark(status) ==
    /\ checked' = IF "radio" \in page THEN status ELSE checked
    /\ UNCHANGED <<page, loaded, listeners, sidebarOpen, transform,
                   marginLeft, active, submitted, error, rows, lastCall>>
    /\ UNCHANGED <<docVars, exceptDom>>

\* keydown with Ctrl/Cmd + S: if (submitBtn) submitBtn.click()
KeydownSave ==
    /\ submitted' = IF "submit" \in page THEN TRUE ELSE submitted
    /\ UNCHANGED <<page, loaded, listeners, sidebarOpen, transform,
                   marginLeft, active, checked, error, rows, lastCall>>
    /\ UNCHANGED <<docVars, exceptDom>>

(***************************************************************************)
(* Specifications                                                          *)
(***************************************************************************)
InitMath ==
    InitRequired /\ IdleAttendance /\ IdleDocument /\ InitLoading /\ InitAjax
    /\ IdleRows /\ IdleDom

NextRequired == Enter \/ LoopStep \/ Return

SpecRequired == InitMath /\ [][NextRequired]_vars

\* the loop runs to its end: nothing preempts a running function
SpecRequiredFair == SpecRequired /\ WF_vars(NextRequired)

InitPercentage ==
    InitAttendance /\ IdleRequired /\ IdleDocument /\ InitLoading /\ InitAjax
    /\ IdleRows /\ IdleDom

NextAttendance == CalculateAttendance

SpecAttendance == InitPercentage /\ [][NextAttendance]_vars

InitPage ==
    InitDocument /\ IdleRequired /\ IdleAttendance /\ InitLoading /\ InitAjax
    /\ IdleRows /\ IdleDom

NextNotify ==
    \/ \E type \in Severity : ShowNotification(type)
    \/ TimerFire
    \/ \E id \in 1..MaxNodes : Dismiss(id)
    \/ AutoHideAlerts

SpecNotify == InitPage /\ [][NextNotify]_vars

\* the event loop runs every timer that is due
SpecNotifyFair == SpecNotify /\ WF_vars(TimerFire)

InitScript ==
    IdleDocument /\ IdleRequired /\ IdleAttendance /\ InitLoading /\ InitAjax
    /\ IdleRows /\ IdleDom

NextLoading == ShowLoading \/ HideLoading

SpecLoading == InitScript /\ [][NextLoading]_vars

NextAjax ==
    \E r \in 1..MaxRequests :
        \/ \E cb \in Callbacks : AjaxRequest(r, cb)
        \/ FetchResolve(r)
        \/ FetchReject(r)
        \/ DecodeFail(r)
        \/ \E d \in Decoded : DecodeOk(r, d)
        \/ ThenCallback(r)
        \/ CatchError(r)

SpecAjax == InitScript /\ [][NextAjax]_vars
InitTable ==
    InitRows /\ IdleDom /\ IdleDocument /\ IdleRequired /\ IdleAttendance
    /\ InitLoading /\ InitAjax

NextRows ==
    \/ \E day \in DayArgs : CallFilterByDay(day)
    \/ \E status \in StatusArgs : CallFilterByStatus(status)
    \/ \E semester \in SemesterArgs : CallFilterBySemester(semester)
    \/ \E value \in SearchArgs : SearchKeyup(value)

SpecRows == InitTable /\ [][NextRows]_vars

InitElements ==
    InitDom /\ IdleRows /\ IdleDocument /\ IdleRequired /\ IdleAttendance
    /\ InitLoading /\ InitAjax

NextDom ==
    \/ DOMContentLoaded
    \/ toggleSidebar
    \/ toggleMobileMenu
    \/ \E value \in SearchArgs : SearchKeyup(value)
    \/ \E status \in Statuses : Mark(status)
    \/ KeydownSave
    \/ HideLoading
    \/ AutoHideAlerts
    \/ \E status \in StatusArgs : CallFilterByStatus(status)

SpecDom == InitElements /\ [][NextDom]_vars

(***************************************************************************)
(* Claims about the attendance calculator                                  *)
(***************************************************************************)
\* k more attended classes reach the target: (a + k) / (t + k) * 100 >= p
Reaches(t, a, p, k) == (a + k) * 100 >= p * (t + k)

\* the least k in 0..Cap that reaches the target, Cap when there is none
MinimalK(t, a, p) ==
    IF \E k \in 0..Cap : Reaches(t, a, p, k)
    THEN CHOOSE k \in 0..Cap :
            Reaches(t, a, p, k) /\ \A j \in 0..(k - 1) : ~Reaches(t, a, p, j)
    ELSE Cap

\* C1: for integers with currentTotal > 0, 0 <= currentAttended <=
\* currentTotal and 0 <= targetPercentage <= 100, calculateRequiredClasses
\* returns the least k >= 0 with (currentAttended + k) / (currentTotal + k)
\* * 100 >= targetPercentage when such a k <= 100 exists, and 100 otherwise.
C1_ReturnsMinimalK ==
    (/\ pc = "done"
     /\ currentTotal > 0
     /\ currentAttended <= currentTotal
     /\ targetPercentage \in 0..100)
    => returned = MinimalK(currentTotal, currentAttended, targetPercentage)

\* the call of the spec's worked example has returned
C2_ExampleReturned ==
    /\ pc = "done"
    /\ <<currentTotal, currentAttended, targetPercentage>> = <<20, 14, 75>>

\* C2 as stated: calculateRequiredClasses(20, 14, 75) returns 2.
C2_ReturnsTwo == C2_ExampleReturned => returned = 2

\* C2, amended: calculateRequiredClasses(20, 14, 75) returns 4, the first k
\* at which (14 + k) / (20 + k) * 100 >= 75 holds.
C2_ReturnsFour ==
    C2_ExampleReturned =>
        /\ returned = 4
        /\ Reaches(20, 14, 75, returned)
        /\ \A j \in 0..(returned - 1) : ~Reaches(20, 14, 75, j)

\* C3: for every input, also currentTotal = 0, currentAttended >
\* currentTotal and targetPercentage > 100, the counter required is never
\* above 100, the loop ends, and the value returned is in 0..100.
C3_CappedAndTerminates ==
    /\ [](required \in 0..Cap /\ (pc = "done" => returned \in 0..Cap))
    /\ <>(pc = "done")

\* a call that the cap ended: the target is out of reach
C3_CapReached ==
    /\ pc = "done" /\ returned = Cap
    /\ targetPercentage > 100 /\ currentAttended > currentTotal

\* C4: for total >= 0 and 0 <= attended <= total, calculateAttendance is
\* 0 when total is 0, and otherwise denotes a value in [0, 100] that is
\* attended / total * 100 rounded to two decimals (within half a hundredth).
C4_PercentageRounded ==
    (percentage # NotCalled /\ attendedClasses <= totalClasses) =>
        IF totalClasses = 0
        THEN percentage = [type |-> "number", hundredths |-> 0]
        ELSE LET h == percentage.hundredths
                 d == h * totalClasses - 10000 * attendedClasses
             IN  /\ h \in 0..10000
                 /\ 2 * d <= totalClasses
                 /\ 0 - 2 * d <= totalClasses

\* a percentage that had to be rounded up: 2 of 3 is 66.67
C4_RoundedUp ==
    /\ totalClasses = 3 /\ attendedClasses = 2
    /\ percentage = [type |-> "string", hundredths |-> 6667]

(***************************************************************************)
(* Claims about the notifications, the overlay and ajaxRequest             *)
(***************************************************************************)
\* the timer scheduled for node id has not fired yet
Pending(id) == \E i \in 1..Len(timers) : timers[i].node = id

\* the alerts in the document
Alerts(b) == SelectSeq(b, LAMBDA n : n.kind = "alert")

\* C5: after N calls of showNotification at most N notification nodes are
\* in the document; a node is out of the document once its own timer has
\* fired, dismissed before or not; a timer's callback removes the node of
\* its own call and no other; and every node appended is in the end
\* removed for good.
C5_SelfRemoving ==
    /\ [](/\ Len(Alerts(body)) <= created
          /\ \A id \in 1..MaxNodes : InBody(id) => Pending(id))
    /\ [][(timers # <<>> /\ timers' = Tail(timers)) =>
            \A id \in 1..MaxNodes :
                InBody(id)' = (InBody(id) /\ id # Head(timers).node)]_vars
    /\ \A id \in 1..MaxNodes : (created >= id) ~> [](~InBody(id))

\* the first node's timer has fired and removed it; the second node, its
\* timer still pending, is in the document
C5_FirstTimerFired ==
    /\ created = 2 /\ ~InBody(1) /\ ~Pending(1)
    /\ InBody(2) /\ Pending(2)

\* C9: for a request with a callback, a fetch that resolves with a body
\* that decodes invokes the callback exactly once, with the decoded value,
\* and shows no danger notification; a fetch that rejects, or a body that
\* fails to decode, shows exactly one and never invokes the callback;
\* whatever the other requests do.
C9_CallbackOrNotification ==
    \A r \in 1..MaxRequests :
        requests[r].callback # "absent" =>
            /\ requests[r].invoked <= 1
            /\ requests[r].notified <= 1
            /\ requests[r].st = "settled" =>
                  IF requests[r].fetched = "decoded"
                  THEN /\ requests[r].invoked = 1
                       /\ requests[r].passed = requests[r].data
                       /\ requests[r].notified = 0
                  ELSE /\ requests[r].invoked = 0
                       /\ requests[r].notified = 1

\* the overlays in the document
Overlays(b) == SelectSeq(b, LAMBDA n : n.kind = "overlay")

RECURSIVE Expected(_)
\* 1 more for each showLoading, 1 less but not below 0 for each hideLoading
Expected(cs) ==
    IF cs = <<>> THEN 0
    ELSE LET before == Expected(SubSeq(cs, 1, Len(cs) - 1))
         IN  IF cs[Len(cs)] = "showLoading" THEN before + 1
             ELSE IF before > 0 THEN before - 1 ELSE 0

\* C10: showLoading appends one more overlay at every call and hideLoading
\* removes at most one, so the overlays in the document number what the
\* calls add up to: +1 for a showLoading, -1 floored at 0 for a hideLoading.
C10_OverlayCount == Len(Overlays(body)) = Expected(calls)

\* two showLoading calls and one hideLoading leave an overlay behind
C10_OverlayLeft ==
    /\ calls = <<"showLoading", "showLoading", "hideLoading">>
    /\ Len(Overlays(body)) = 1

(***************************************************************************)
(* Claims about the filters and the page's elements                        *)
(***************************************************************************)
\* C6: after filterByStatus('all') every row with a data-status is
\* visible; after filterByStatus('absent') a row with a data-status is
\* visible exactly if it is 'absent'; whatever was hidden before and
\* whatever the row's day and semester.
C6_StatusFilter ==
    /\ lastCall = <<"filterByStatus", "all">> =>
          \A i \in DOMAIN rows :
              rows[i].status # NoAttr => rows[i].display = ""
    /\ lastCall = <<"filterByStatus", "absent">> =>
          \A i \in DOMAIN rows :
              rows[i].status # NoAttr =>
                  (rows[i].display = "" <=> rows[i].status = "absent")

\* filterByStatus('absent') has run on a present row and an absent row
C6_AbsentShown ==
    /\ lastCall = <<"filterByStatus", "absent">>
    /\ \E i, j \in DOMAIN rows :
          /\ rows[i].status = "present" /\ rows[i].display = "none"
          /\ rows[j].status = "absent" /\ rows[j].display = ""
          /\ rows[j].day = "Mon"

\* a row without its style.display
Content(r) ==
    [day |-> r.day, status |-> r.status, semester |-> r.semester,
     cells |-> r.cells]

\* C7: no filter and no search changes the rows, their order, their data
\* attributes or their cell text; only style.display may change.
C7_OnlyDisplayChanges ==
    [][/\ Len(rows') = Len(rows)
       /\ \A i \in DOMAIN rows : Content(rows'[i]) = Content(rows[i])]_vars

\* a handler has run and a row is hidden
C7_RowHidden ==
    /\ lastCall # NoCall
    /\ \E i \in DOMAIN rows : rows[i].display = "none"

\* C8: no operation that queries the document ends in an error because an
\* element it queries for is missing.
C8_MissingElementIsNoOp == error = None

====
